---------------------------- MODULE Spec2Model ----------------------------
(***************************************************************************)
(* A model of spec0: the SPEC0 support-window filters (releasefilters.py)  *)
(* and the release sources that feed them (releasesource.py).              *)
(*                                                                         *)
(* The functions of releasefilters.py are operators, applied by one action *)
(* each (Filter, Aggregate, DropDate, MakeSpecifier).  The two generators  *)
(* of releasesource.py are state machines: an action is one next() of the  *)
(* consumer, from the place the generator is suspended at to its next      *)
(* yield or to its end.  Each part has its own specification: Spec         *)
(* (filter), SpecOldest, SpecDates, SpecSpecifier, SpecPyPI, SpecDefault.  *)
(*                                                                         *)
(* Values.  A datetime is a record [year, month, day, second,              *)
(* microsecond, tzinfo] (second is the second of the day).  A Version is   *)
(* [epoch, release, pre]: release is the tuple of release numbers, pre is  *)
(* empty or holds the number of the rc.  A string that the code formats and*)
(* parses is a sequence of tokens.  Every call result is Return(v) or      *)
(* Raise(exc, msg), msg being the sequence of the message's parts.         *)
(***************************************************************************)
EXTENDS Integers, Sequences, FiniteSets, TLC

VARIABLES
    self,       \* the SPEC0 object: [cls, n_months, python_override]
    package,    \* the package name handed to the call
    releases,   \* the release history handed to the call (a sequence)
    now,        \* what datetime.utcnow() gave the last filter call
    op,         \* the last operation applied
    arg,        \* the index in releases of the release it was applied to
    ret,        \* what it returned or raised
    supported,  \* the mapping handed to make_specifier
    include_upper_bound,    \* the flag handed to make_specifier
    payload,    \* the "releases" object of the PyPI response: its items, in order
    response_ok,    \* whether the PyPI request succeeds
    sources,    \* what each release source of the fallback list does
    resolves,   \* whether every class name of the fallback list is bound
    gen,        \* the generator get_releases returned: where it is suspended
    yielded,    \* the releases the consumer has received from it
    warned      \* the warnings issued

vars == <<self, package, releases, now, op, arg, ret, supported, include_upper_bound,
          payload, response_ok, sources, resolves, gen, yielded, warned>>

sourceVars == <<payload, response_ok, sources, resolves>>

genVars == <<gen, yielded, warned>>

filterVars == <<self, package, releases>>

specifierVars == <<supported, include_upper_bound>>

Return(v) == [kind |-> "return", value |-> v]

Raise(exc, msg) == [kind |-> "raise", value |-> [exc |-> exc, msg |-> msg]]

IsReturn(r) == r.kind = "return"

IsRaise(r) == r.kind = "raise"

NoCall == [kind |-> "none", value |-> <<>>]

(***************************************************************************)
(* datetime                                                                *)
(***************************************************************************)
MINYEAR == 1

MAXYEAR == 9999

LastSecond == 86399

LastMicrosecond == 999999

\* datetime.datetime(y, m, d, ..., tzinfo=utc), s the second of the day; the
\* microsecond is 0 unless given
Datetime(y, m, d, s) ==
    [year |-> y, month |-> m, day |-> d, second |-> s, microsecond |-> 0, tzinfo |-> "UTC"]

\* datetime.datetime.max.replace(tzinfo=datetime.timezone.utc):
\* 9999-12-31T23:59:59.999999+00:00
DatetimeMax ==
    [Datetime(MAXYEAR, 12, 31, LastSecond) EXCEPT !.microsecond = LastMicrosecond]

IsLeap(y) == (y % 4 = 0) /\ ((y % 100 # 0) \/ (y % 400 = 0))

DaysInMonth(y, m) ==
    IF m = 2 THEN (IF IsLeap(y) THEN 29 ELSE 28)
    ELSE IF m \in {4, 6, 9, 11} THEN 30 ELSE 31

\* a < b on two aware datetimes of the same zone
DtLess(a, b) ==
    \/ a.year < b.year
    \/ a.year = b.year /\ a.month < b.month
    \/ a.year = b.year /\ a.month = b.month /\ a.day < b.day
    \/ a.year = b.year /\ a.month = b.month /\ a.day = b.day /\ a.second < b.second
    \/ /\ a.year = b.year /\ a.month = b.month /\ a.day = b.day /\ a.second = b.second
       /\ a.microsecond < b.microsecond

\* date.replace(year=y, month=m): the other fields kept, the result validated
DatetimeReplace(date, y, m) ==
    IF y < MINYEAR \/ y > MAXYEAR
    THEN Raise("ValueError", <<"year is out of range">>)
    ELSE IF m < 1 \/ m > 12
    THEN Raise("ValueError", <<"month must be in 1..12">>)
    ELSE IF date.day > DaysInMonth(y, m)
    THEN Raise("ValueError", <<"day is out of range for month">>)
    ELSE Return([date EXCEPT !.year = y, !.month = m])

(***************************************************************************)
(* utils/dates                                                             *)
(***************************************************************************)
get_quarter(date) == <<date.year, ((date.month - 1) \div 3) + 1>>

\* next_quarter without the roll-over of the fourth quarter
next_quarter_NoRollover(date) ==
    LET yq == get_quarter(date)
    IN  <<yq[1], yq[2] + 1>>

next_quarter(date) ==
    LET yq == get_quarter(date)
        quarter == yq[2] + 1
    IN  IF quarter > 4 THEN <<yq[1] + 1, 1>> ELSE <<yq[1], quarter>>

quarter_to_date(quarter) ==
    IF quarter[1] < MINYEAR \/ quarter[1] > MAXYEAR
    THEN Raise("ValueError", <<"year is out of range">>)
    ELSE IF (quarter[2] - 1) * 3 + 1 < 1 \/ (quarter[2] - 1) * 3 + 1 > 12
    THEN Raise("ValueError", <<"month must be in 1..12">>)
    ELSE Return(Datetime(quarter[1], (quarter[2] - 1) * 3 + 1, 1, 0))

shift_date_by_months(date, n_months) ==
    LET dyears == n_months \div 12
        dmonths == n_months % 12
    IN  DatetimeReplace(date, date.year + dyears, date.month + dmonths)

(***************************************************************************)
(* packaging.version.Version                                               *)
(***************************************************************************)
\* Version.pre: None, or ("rc", n), the one pre-release tag of the strings below
NoPre == <<>>

RcPre(n) == <<n>>

Version(epoch, release, pre) == [epoch |-> epoch, release |-> release, pre |-> pre]

\* Version.is_prerelease
is_prerelease(v) == v.pre # NoPre

\* Release(version=None, ...): the version of the defaultdict's placeholder
NoneVersion == [epoch |-> -1, release |-> <<>>, pre |-> NoPre]

Release(version, release_date) == [version |-> version, release_date |-> release_date]

\* Version.major, Version.minor: 0 when the release has no such component
major(v) == IF Len(v.release) >= 1 THEN v.release[1] ELSE 0

minor(v) == IF Len(v.release) >= 2 THEN v.release[2] ELSE 0

\* Python's comparison of two tuples of integers
RECURSIVE TupleLess(_, _)
TupleLess(a, b) ==
    IF b = <<>> THEN FALSE
    ELSE IF a = <<>> THEN TRUE
    ELSE IF Head(a) # Head(b) THEN Head(a) < Head(b)
    ELSE TupleLess(Tail(a), Tail(b))

\* max(keys): the first greatest element, under the tuple ordering
MaxTuple(S) == CHOOSE k \in S : \A j \in S : ~TupleLess(k, j)

(***************************************************************************)
(* Version strings: a string is its sequence of tokens                     *)
(***************************************************************************)
Num(n) == [t |-> "num", n |-> n]

Bang == [t |-> "!", n |-> 0]

Dot == [t |-> ".", n |-> 0]

Rc == [t |-> "rc", n |-> 0]

Word == [t |-> "word", n |-> 0]

\* the numbers of "1.2.3", the dots dropped
ReleaseOf(body) == [i \in 1..((Len(body) + 1) \div 2) |-> body[2 * i - 1].n]

\* Version(string), by the pattern of packaging on these tokens:
\* [N!] N(.N)* [ [.] rc [.] [N] ], the number of the pre-release 0 when it is
\* not written; anything else is InvalidVersion.  Two numbers are never
\* adjacent in the tokens of a string.
ParseVersion(tokens) ==
    LET hasEpoch == Len(tokens) >= 2 /\ tokens[1].t = "num" /\ tokens[2].t = "!"
        rest == IF hasEpoch THEN SubSeq(tokens, 3, Len(tokens)) ELSE tokens
        rcs == { i \in 1..Len(rest) : rest[i].t = "rc" }
        hasPre == rcs # {}
        rcAt == IF hasPre THEN CHOOSE i \in rcs : \A j \in rcs : i <= j ELSE Len(rest) + 1
        sepBefore == hasPre /\ rcAt >= 2 /\ rest[rcAt - 1].t = "."
        body == SubSeq(rest, 1, IF sepBefore THEN rcAt - 2 ELSE rcAt - 1)
        after == SubSeq(rest, rcAt + 1, Len(rest))
        number == IF after # <<>> /\ after[1].t = "." THEN Tail(after) ELSE after
        validBody == /\ Len(body) % 2 = 1
                     /\ \A i \in 1..Len(body) :
                           body[i].t = (IF i % 2 = 1 THEN "num" ELSE ".")
        validPre == \/ number = <<>>
                    \/ Len(number) = 1 /\ number[1].t = "num"
        pre == IF ~hasPre THEN NoPre
               ELSE IF number = <<>> THEN RcPre(0) ELSE RcPre(number[1].n)
    IN  IF validBody /\ validPre
        THEN Return(Version(IF hasEpoch THEN tokens[1].n ELSE 0, ReleaseOf(body), pre))
        ELSE Raise("InvalidVersion", <<"Invalid version">>)

RECURSIVE JoinDots(_)
JoinDots(release) ==
    IF Len(release) = 0 THEN <<>>
    ELSE IF Len(release) = 1 THEN <<Num(release[1])>>
    ELSE <<Num(release[1]), Dot>> \o JoinDots(Tail(release))

\* str(version): the epoch is written only when it is not 0, the pre-release
\* as rcN
VersionStr(v) ==
    (IF v.epoch # 0 THEN <<Num(v.epoch), Bang>> ELSE <<>>)
        \o JoinDots(v.release)
        \o (IF is_prerelease(v) THEN <<Rc, Num(v.pre[1])>> ELSE <<>>)

\* the release with its trailing zeros stripped, as Version compares it
RECURSIVE StripZeros(_)
StripZeros(release) ==
    IF release # <<>> /\ release[Len(release)] = 0
    THEN StripZeros(SubSeq(release, 1, Len(release) - 1))
    ELSE release

\* the pre-release part of the comparison key: ("rc", n) by n, and before None
PreLess(p, q) == p # NoPre /\ (q = NoPre \/ p[1] < q[1])

\* a < b on Versions: the epoch, the stripped release, a pre-release before its final
VersionLess(a, b) ==
    \/ a.epoch < b.epoch
    \/ /\ a.epoch = b.epoch
       /\ \/ TupleLess(StripZeros(a.release), StripZeros(b.release))
          \/ StripZeros(a.release) = StripZeros(b.release) /\ PreLess(a.pre, b.pre)

MinVersion(S) == CHOOSE v \in S : \A w \in S : ~VersionLess(w, v)

MaxVersion(S) == CHOOSE v \in S : \A w \in S : ~VersionLess(v, w)

\* SpecifierSet: the set of its clauses [operator, version]; & is the union
Specifier(operator, version_str) == [operator |-> operator, version |-> version_str]

\* Specifier.contains on a final version, for the operators >= and <
ClauseContains(clause, v) ==
    LET bound == ParseVersion(clause.version).value
    IN  IF clause.operator = ">=" THEN ~VersionLess(v, bound)
        ELSE IF clause.operator = "<" THEN VersionLess(v, bound)
        ELSE FALSE

SpecifierSetContains(spec, v) == \A clause \in spec : ClauseContains(clause, v)

(***************************************************************************)
(* get_oldest_minor_release                                                *)
(***************************************************************************)
\* the defaultdict's default_factory
DefaultRelease == Release(NoneVersion, DatetimeMax)

MinorKey(v) == <<v.epoch, major(v), minor(v)>>

\* d[key] on a defaultdict: a missing key is inserted with the default
DefaultDictGet(d, key) ==
    IF key \in DOMAIN d THEN d ELSE d @@ (key :> DefaultRelease)

\* the loop body without the comparison of the dates: the last release wins
OldestStep_LastWins(d, release) ==
    IF ~is_prerelease(release.version)
    THEN LET key == MinorKey(release.version)
             d1 == DefaultDictGet(d, key)
         IN  [d1 EXCEPT ![key] = release]
    ELSE d

\* one iteration of the loop body, on the mapping built so far
OldestStep(d, release) ==
    IF ~is_prerelease(release.version)
    THEN LET key == MinorKey(release.version)
             d1 == DefaultDictGet(d, key)
         IN  IF DtLess(release.release_date, d1[key].release_date)
             THEN [d1 EXCEPT ![key] = release]
             ELSE d1
    ELSE d

EmptyDict == [k \in {} |-> DefaultRelease]

RECURSIVE OldestFold(_, _)
OldestFold(d, rs) ==
    IF rs = <<>> THEN d ELSE OldestFold(OldestStep(d, Head(rs)), Tail(rs))

get_oldest_minor_release(rs) == OldestFold(EmptyDict, rs)

(***************************************************************************)
(* make_specifier                                                          *)
(***************************************************************************)
\* min(Version(f"{epoch}!{major}.{minor}") for ... in keys)
LowerBound(keys) ==
    MinVersion({ ParseVersion(<<Num(k[1]), Bang, Num(k[2]), Dot, Num(k[3])>>).value :
                    k \in keys })

\* the upper bound without the increment of major
UpperBound_SameMajor(keys) ==
    MaxVersion({ ParseVersion(<<Num(k[1]), Bang, Num(k[2])>>).value : k \in keys })

\* max(Version(f"{epoch}!{major + 1}") for ... in keys)
UpperBound(keys) ==
    MaxVersion({ ParseVersion(<<Num(k[1]), Bang, Num(k[2] + 1)>>).value : k \in keys })

make_specifier(supported_minor_releases, upper) ==
    IF DOMAIN supported_minor_releases = {}
    THEN Raise("ValueError", <<"min() arg is an empty sequence">>)
    ELSE LET min_version == LowerBound(DOMAIN supported_minor_releases)
             spec == {Specifier(">=", VersionStr(min_version))}
         IN  IF upper
             THEN Return(spec \cup
                    {Specifier("<", VersionStr(UpperBound(DOMAIN supported_minor_releases)))})
             ELSE Return(spec)

(***************************************************************************)
(* SPEC0, SPEC0StrictDate, SPEC0Quarter                                    *)
(***************************************************************************)
PythonWindow == 36

DefaultWindow == 24

_get_n_months(slf, pkg) ==
    IF pkg = "python" /\ slf.python_override THEN PythonWindow ELSE slf.n_months

SPEC0StrictDate_drop_date(slf, pkg, release) ==
    shift_date_by_months(release.release_date, _get_n_months(slf, pkg))

SPEC0Quarter_drop_date(slf, pkg, release) ==
    LET naive_drop == shift_date_by_months(release.release_date, _get_n_months(slf, pkg))
    IN  IF IsRaise(naive_drop) THEN naive_drop
        ELSE quarter_to_date(next_quarter(naive_drop.value))

\* self.drop_date: dispatch on the class of the object
drop_date(slf, pkg, release) ==
    IF slf.cls = "SPEC0StrictDate" THEN SPEC0StrictDate_drop_date(slf, pkg, release)
    ELSE IF slf.cls = "SPEC0Quarter" THEN SPEC0Quarter_drop_date(slf, pkg, release)
    ELSE Raise("NotImplementedError", <<>>)

\* the keys of the mapping whose drop_date call raises
RaisingKeys(slf, pkg, oldest) ==
    {k \in DOMAIN oldest : IsRaise(drop_date(slf, pkg, oldest[k]))}

\* where a key was inserted: the dict iterates its keys in insertion order
FirstIndex(rs, k) ==
    CHOOSE i \in 1..Len(rs) :
        /\ ~is_prerelease(rs[i].version) /\ MinorKey(rs[i].version) = k
        /\ \A j \in 1..(i - 1) : is_prerelease(rs[j].version) \/ MinorKey(rs[j].version) # k

FirstInserted(rs, S) ==
    CHOOSE k \in S : \A j \in S : FirstIndex(rs, k) <= FirstIndex(rs, j)

_get_minimum_supported(slf, pkg, rs, utcnow) ==
    LET oldest_minor_release == get_oldest_minor_release(rs)
    IN  IF DOMAIN oldest_minor_release = {}
        THEN Raise("ValueError", <<"max() arg is an empty sequence">>)
        ELSE
        LET max_minor_release == MaxTuple(DOMAIN oldest_minor_release)
            raising == RaisingKeys(slf, pkg, oldest_minor_release)
            kept == {k \in DOMAIN oldest_minor_release :
                        \/ k = max_minor_release
                        \/ DtLess(utcnow, drop_date(slf, pkg, oldest_minor_release[k]).value)}
        IN  IF raising # {}
            THEN drop_date(slf, pkg, oldest_minor_release[FirstInserted(rs, raising)])
            ELSE Return([k \in kept |-> oldest_minor_release[k]])

SPEC0_filter(slf, pkg, rs, utcnow) == _get_minimum_supported(slf, pkg, rs, utcnow)

(***************************************************************************)
(* PyPIReleaseSource._get_releases                                         *)
(***************************************************************************)
\* an upload_time_iso_8601 string, "2023-03-03T12:00:00.250000Z"
IsoString(y, m, d, s, us) ==
    [date |-> <<y, m, d>>, time |-> s, fraction |-> us, offset |-> "Z"]

\* upload_time_str.replace("Z", "+00:00")
ReplaceZ(str) == [str EXCEPT !.offset = IF @ = "Z" THEN "+00:00" ELSE @]

\* datetime.datetime.fromisoformat, of a string with the offset +00:00
FromIsoFormat(str) ==
    [year |-> str.date[1], month |-> str.date[2], day |-> str.date[3],
     second |-> str.time, microsecond |-> str.fraction,
     tzinfo |-> IF str.offset = "+00:00" THEN "UTC" ELSE str.offset]

\* file_info.get("upload_time_iso_8601") is truthy
HasUploadTime(file_info) == "upload_time_iso_8601" \in DOMAIN file_info

\* earliest_date = None
NoneDate == Raise("None", <<>>)

\* the loop over the files of one version: earliest_date, None when no file has one
RECURSIVE EarliestDate(_, _)
EarliestDate(files, earliest_date) ==
    IF files = <<>> THEN earliest_date
    ELSE IF HasUploadTime(Head(files))
    THEN LET dt == FromIsoFormat(ReplaceZ(Head(files).upload_time_iso_8601))
         IN  IF IsRaise(earliest_date) \/ DtLess(dt, earliest_date.value)
             THEN EarliestDate(Tail(files), Return(dt))
             ELSE EarliestDate(Tail(files), earliest_date)
    ELSE EarliestDate(Tail(files), earliest_date)

\* the loop over the versions: the release_list appended to, in the order of the items
RECURSIVE ReleaseList(_)
ReleaseList(items) ==
    IF items = <<>> THEN <<>>
    ELSE LET parsed_version == ParseVersion(Head(items).version_str)
             earliest_date == EarliestDate(Head(items).files, NoneDate)
         IN  IF IsRaise(parsed_version) \/ IsRaise(earliest_date)
             THEN ReleaseList(Tail(items))
             ELSE <<Release(parsed_version.value, earliest_date.value)>>
                      \o ReleaseList(Tail(items))

\* the warnings of the loop: one for each version string that does not parse
RECURSIVE Warnings(_, _)
Warnings(items, pkg) ==
    IF items = <<>> THEN <<>>
    ELSE (IF IsRaise(ParseVersion(Head(items).version_str))
          THEN <<[text |-> "Skipping invalid version", version_str |-> Head(items).version_str,
                  package |-> pkg]>>
          ELSE <<>>) \o Warnings(Tail(items), pkg)

\* the insertion of a sort without reverse=True: ascending dates
InsertAscending(sorted, x) ==
    LET n == Cardinality({ i \in 1..Len(sorted) :
                             ~DtLess(x.release_date, sorted[i].release_date) })
    IN  SubSeq(sorted, 1, n) \o <<x>> \o SubSeq(sorted, n + 1, Len(sorted))

\* x put into a list sorted by descending date, after the elements not older than it
InsertDescending(sorted, x) ==
    LET n == Cardinality({ i \in 1..Len(sorted) :
                             ~DtLess(sorted[i].release_date, x.release_date) })
    IN  SubSeq(sorted, 1, n) \o <<x>> \o SubSeq(sorted, n + 1, Len(sorted))

\* release_list.sort(key=lambda r: r.release_date, reverse=True): a stable sort
RECURSIVE SortDescending(_)
SortDescending(release_list) ==
    IF release_list = <<>> THEN <<>>
    ELSE InsertDescending(SortDescending(SubSeq(release_list, 1, Len(release_list) - 1)),
                          release_list[Len(release_list)])

(***************************************************************************)
(* DefaultReleaseSource                                                    *)
(*                                                                         *)
(* A release source is what its get_releases does: call says what the call *)
(* gives (a generator, None, or an exception), count how many releases the *)
(* generator yields, fails whether it then raises instead of ending.       *)
(***************************************************************************)
NSources == 4

Source(call, count, fails) == [call |-> call, count |-> count, fails |-> fails]

\* the k-th release of the i-th source
Item(i, k) == Release(Version(0, <<i, k, 0>>, NoPre), Datetime(2023, 1, 1, 0))

\* try: return source.get_releases(package)  except: return None
_try_release_source(source) ==
    IF source.call = "generator" THEN "generator" ELSE "None"

\* if releases: a generator object is true whatever it yields, None is false
Truthy(rel) == rel # "None"

Closed(outcome) == [ret |-> outcome, pc |-> "closed", i |-> 0, k |-> 0]

\* the body of get_releases from the head of the for loop at source i (k = -1),
\* or from inside the yield from of source i after its k-th release (k >= 0),
\* up to the next yield or to the end of the generator
RECURSIVE DefaultRun(_, _, _, _)
DefaultRun(srcs, pkg, i, k) ==
    IF i > Len(srcs)
    THEN Closed(Raise("ValueError", <<"Failed to get releases for ", pkg>>))
    ELSE IF k < 0
    THEN IF Truthy(_try_release_source(srcs[i]))
         THEN DefaultRun(srcs, pkg, i, 0)
         ELSE DefaultRun(srcs, pkg, i + 1, -1)
    ELSE IF k < srcs[i].count
    THEN [ret |-> Return(Item(i, k + 1)), pc |-> "suspended", i |-> i, k |-> k + 1]
    ELSE IF srcs[i].fails
    THEN Closed(Raise("SourceError", <<"source failed">>))
    ELSE DefaultRun(srcs, pkg, i + 1, -1)

(***************************************************************************)
(* The inputs                                                              *)
(***************************************************************************)
MaxLen == 3

MaxWindow == 13

Packages == {"python", "numpy"}

Classes == {"SPEC0StrictDate", "SPEC0Quarter"}

SPEC0(cls, n_months, python_override) ==
    [cls |-> cls, n_months |-> n_months, python_override |-> python_override]

\* 1.0.0, 1.0.1rc1, 1.0.1, 1.1.0 and 1!0.9.0
HistoryVersions ==
    { Version(0, <<1, 0, 0>>, NoPre), Version(0, <<1, 0, 1>>, RcPre(1)),
      Version(0, <<1, 0, 1>>, NoPre), Version(0, <<1, 1, 0>>, NoPre),
      Version(1, <<0, 9, 0>>, NoPre) }

HistoryDates == { Datetime(2020, 1, 15, 0), Datetime(2020, 2, 29, 0), Datetime(2020, 7, 15, 0) }

HistoryReleases == { Release(v, d) : v \in HistoryVersions, d \in HistoryDates }

Histories == UNION { [1..n -> HistoryReleases] : n \in 0..MaxLen }

FilterWindows == {6, DefaultWindow}

Nows == { Datetime(2020, 6, 1, 0), Datetime(2022, 1, 15, 0),
          Datetime(2022, 4, 1, 0), Datetime(2023, 6, 1, 0) }

NoDatetime == Datetime(0, 0, 0, 0)

(***************************************************************************)
(* The calls                                                               *)
(***************************************************************************)
\* SPEC0.filter(package, releases), the clock read inside it
Filter ==
    \E utcnow \in Nows :
        /\ now' = utcnow
        /\ op' = "filter"
        /\ arg' = 0
        /\ ret' = SPEC0_filter(self, package, releases, utcnow)
        /\ UNCHANGED <<filterVars, specifierVars, sourceVars, genVars>>

\* get_oldest_minor_release(releases)
Aggregate ==
    /\ op' = "get_oldest_minor_release"
    /\ arg' = 0
    /\ ret' = Return(get_oldest_minor_release(releases))
    /\ UNCHANGED <<filterVars, now, specifierVars, sourceVars, genVars>>

\* self.drop_date(package, release) on one release of the history
DropDate ==
    \E i \in 1..Len(releases) :
        /\ op' = "drop_date"
        /\ arg' = i
        /\ ret' = drop_date(self, package, releases[i])
        /\ UNCHANGED <<filterVars, now, specifierVars, sourceVars, genVars>>

\* make_specifier(supported, include_upper_bound)
MakeSpecifier ==
    /\ op' = "make_specifier"
    /\ arg' = 0
    /\ ret' = make_specifier(supported, include_upper_bound)
    /\ UNCHANGED <<filterVars, now, specifierVars, sourceVars, genVars>>

NoSpecifierCall ==
    /\ supported = EmptyDict
    /\ include_upper_bound = FALSE

NoGenerator == [pc |-> "none", i |-> 0, k |-> 0, release_list |-> <<>>]

NoSourceCall ==
    /\ payload = <<>>
    /\ response_ok = TRUE
    /\ sources = <<>>
    /\ resolves = TRUE
    /\ gen = NoGenerator
    /\ yielded = <<>>
    /\ warned = <<>>

\* the first next() on PyPIReleaseSource().get_releases(package): the request,
\* the loops and the sort, up to the first yield
PyPIStart ==
    /\ gen.pc = "created"
    /\ op' = "next"
    /\ arg' = 0
    /\ IF ~response_ok
       THEN /\ ret' = Raise("HTTPError", <<"Not Found for url: https://pypi.org/pypi/",
                                             package, "/json">>)
            /\ gen' = [gen EXCEPT !.pc = "closed"]
            /\ UNCHANGED <<yielded, warned>>
       ELSE LET release_list == SortDescending(ReleaseList(payload))
            IN  /\ warned' = Warnings(payload, package)
                /\ IF release_list = <<>>
                   THEN /\ ret' = Raise("StopIteration", <<>>)
                        /\ gen' = [gen EXCEPT !.pc = "closed", !.release_list = release_list]
                        /\ UNCHANGED yielded
                   ELSE /\ ret' = Return(release_list[1])
                        /\ gen' = [gen EXCEPT !.pc = "suspended", !.k = 1,
                                               !.release_list = release_list]
                        /\ yielded' = Append(yielded, release_list[1])
    /\ UNCHANGED <<filterVars, now, specifierVars, sourceVars>>

\* a later next(): the loop over the sorted release_list goes on
PyPIResume ==
    /\ gen.pc = "suspended"
    /\ op' = "next"
    /\ arg' = 0
    /\ IF gen.k < Len(gen.release_list)
       THEN /\ ret' = Return(gen.release_list[gen.k + 1])
            /\ gen' = [gen EXCEPT !.k = @ + 1]
            /\ yielded' = Append(yielded, gen.release_list[gen.k + 1])
       ELSE /\ ret' = Raise("StopIteration", <<>>)
            /\ gen' = [gen EXCEPT !.pc = "closed"]
            /\ UNCHANGED yielded
    /\ UNCHANGED <<filterVars, now, specifierVars, sourceVars, warned>>

\* what a next() on DefaultReleaseSource().get_releases(package) does to the
\* generator and to the consumer, given where the body stops
DefaultStep(run) ==
    /\ op' = "next"
    /\ arg' = 0
    /\ ret' = run.ret
    /\ gen' = [gen EXCEPT !.pc = run.pc, !.i = run.i, !.k = run.k]
    /\ yielded' = IF IsReturn(run.ret) THEN Append(yielded, run.ret.value) ELSE yielded
    /\ UNCHANGED <<filterVars, now, specifierVars, sourceVars, warned>>

\* the first next(): the list of sources is built, then the loop is entered
DefaultStart ==
    /\ gen.pc = "created"
    /\ DefaultStep(IF resolves
                   THEN DefaultRun(sources, package, 1, -1)
                   ELSE Closed(Raise("NameError",
                                     <<"name 'CondaForgeReleaseSource' is not defined">>)))

\* a later next(): the yield from goes on
DefaultResume ==
    /\ gen.pc = "suspended"
    /\ DefaultStep(DefaultRun(sources, package, gen.i, gen.k))

Init ==
    /\ self \in { SPEC0(c, n, TRUE) : c \in Classes, n \in FilterWindows }
    /\ package \in Packages
    /\ releases \in Histories
    /\ now = NoDatetime
    /\ op = "none"
    /\ arg = 0
    /\ ret = NoCall
    /\ NoSpecifierCall
    /\ NoSourceCall

Next == Filter

Spec == Init /\ [][Next]_vars

(***************************************************************************)
(* get_oldest_minor_release alone, over histories                          *)
(***************************************************************************)
\* 1.0.0 in the last whole second of the calendar, 1.0.0, 1.0.1 and 1.1.0 at
\* datetime.max
LastReleases ==
    { Release(Version(0, <<1, 0, 0>>, NoPre), Datetime(MAXYEAR, 12, 31, LastSecond)),
      Release(Version(0, <<1, 0, 0>>, NoPre), DatetimeMax),
      Release(Version(0, <<1, 0, 1>>, NoPre), DatetimeMax),
      Release(Version(0, <<1, 1, 0>>, NoPre), DatetimeMax) }

OldestHistories == UNION { [1..n -> HistoryReleases \cup LastReleases] : n \in 0..MaxLen }

InitOldest ==
    /\ releases \in OldestHistories
    /\ self = SPEC0("SPEC0StrictDate", DefaultWindow, TRUE)
    /\ package = "numpy"
    /\ now = NoDatetime
    /\ op = "none"
    /\ arg = 0
    /\ ret = NoCall
    /\ NoSpecifierCall
    /\ NoSourceCall

NextOldest == Aggregate

SpecOldest == InitOldest /\ [][NextOldest]_vars

(***************************************************************************)
(* drop_date alone, over a grid of release dates and windows               *)
(***************************************************************************)
GridYears == {2019, 2020}

GridDays == {1, 28, 29, 31}

GridSeconds == {0, 45296}

DateGrid ==
    { Datetime(y, m, d, s) : y \in GridYears, m \in 1..12,
                             d \in GridDays, s \in GridSeconds }

GridWindows == (0..MaxWindow) \cup {DefaultWindow}

InitDates ==
    /\ self \in { SPEC0(c, n, o) : c \in Classes, n \in GridWindows, o \in BOOLEAN }
    /\ package \in Packages
    /\ releases \in { <<Release(Version(0, <<1, 0, 0>>, NoPre), d)>> :
                        d \in {g \in DateGrid : g.day <= DaysInMonth(g.year, g.month)} }
    /\ now = NoDatetime
    /\ op = "none"
    /\ arg = 0
    /\ ret = NoCall
    /\ NoSpecifierCall
    /\ NoSourceCall

NextDates == DropDate

SpecDates == InitDates /\ [][NextDates]_vars

(***************************************************************************)
(* make_specifier alone, over sets of minor lines                          *)
(***************************************************************************)
MaxEpoch == 1

MaxMajor == 2

MaxMinor == 1

MaxKeys == 3

KeyGrid == (0..MaxEpoch) \X (1..MaxMajor) \X (0..MaxMinor)

\* the lines 2.0 to 2.5
ExampleKeys == { <<0, 2, m>> : m \in 0..5 }

\* a supported mapping of the given keys: make_specifier reads the keys only
SupportedOf(keys) ==
    [k \in keys |-> Release(Version(k[1], <<k[2], k[3], 0>>, NoPre), Datetime(2020, 1, 15, 0))]

InitSpecifier ==
    /\ supported \in { SupportedOf(K) :
                          K \in {J \in SUBSET KeyGrid : Cardinality(J) <= MaxKeys}
                                 \cup {ExampleKeys} }
    /\ include_upper_bound \in BOOLEAN
    /\ self = SPEC0("SPEC0StrictDate", DefaultWindow, TRUE)
    /\ package = "numpy"
    /\ releases = <<>>
    /\ now = NoDatetime
    /\ op = "none"
    /\ arg = 0
    /\ ret = NoCall
    /\ NoSourceCall

NextSpecifier == MakeSpecifier

SpecSpecifier == InitSpecifier /\ [][NextSpecifier]_vars

(***************************************************************************)
(* PyPIReleaseSource alone, over payloads                                  *)
(***************************************************************************)
MaxVersions == 4

\* "1.0", "1.0.0", "2.0.0rc1", "2.0.rc" and "not-a-valid-version"
VersionStrings ==
    { <<Num(1), Dot, Num(0)>>, <<Num(1), Dot, Num(0), Dot, Num(0)>>,
      <<Num(2), Dot, Num(0), Dot, Num(0), Rc, Num(1)>>, <<Num(2), Dot, Num(0), Dot, Rc>>,
      <<Word>> }

FileWith(upload_time) == [filename |-> "sdist", upload_time_iso_8601 |-> upload_time]

FileWithout == [filename |-> "wheel"]

Upload1 == IsoString(2023, 1, 15, 72000, 0)

Upload2 == IsoString(2023, 2, 10, 32400, 250000)

Upload3 == IsoString(2023, 2, 10, 32400, 750000)

FileLists ==
    { <<>>, <<FileWith(Upload1)>>, <<FileWith(Upload3), FileWith(Upload2)>>,
      <<FileWithout, FileWith(Upload1)>> }

\* the items of a JSON object: the keys, none twice, each with its list of files
PayloadOf(keys, files) ==
    [n \in 1..Len(keys) |-> [version_str |-> keys[n], files |-> files[n]]]

\* a request that fails has no payload
InitPyPI ==
    /\ response_ok \in BOOLEAN
    /\ \E n \in 0..(IF response_ok THEN MaxVersions ELSE 0) :
          \E keys \in [1..n -> VersionStrings] :
              /\ \A a, b \in 1..n : keys[a] = keys[b] => a = b
              /\ \E files \in [1..n -> FileLists] : payload = PayloadOf(keys, files)
    /\ package = "example-lib"
    /\ gen = [pc |-> "created", i |-> 0, k |-> 0, release_list |-> <<>>]
    /\ yielded = <<>>
    /\ warned = <<>>
    /\ sources = <<>>
    /\ resolves = TRUE
    /\ self = SPEC0("SPEC0StrictDate", DefaultWindow, TRUE)
    /\ releases = <<>>
    /\ now = NoDatetime
    /\ op = "none"
    /\ arg = 0
    /\ ret = NoCall
    /\ NoSpecifierCall

NextPyPI == PyPIStart \/ PyPIResume

SpecPyPI == InitPyPI /\ [][NextPyPI]_vars

(***************************************************************************)
(* DefaultReleaseSource alone, over what its sources do                    *)
(***************************************************************************)
MaxItems == 2

\* get_releases of ReleaseSource is a generator function: calling it gives a
\* generator, which fails, if it does, when it is consumed
GeneratorSources ==
    { Source("generator", n, f) : n \in 0..MaxItems, f \in BOOLEAN }

\* a source whose get_releases is its own: the call may raise or give None too
AnySources == GeneratorSources \cup { Source("raises", 0, TRUE), Source("None", 0, TRUE) }

InitDefault ==
    /\ sources \in { q \in [1..NSources -> AnySources] :
                        \A i \in 1..(NSources - 1) : q[i] \in GeneratorSources }
    /\ resolves \in BOOLEAN
    /\ package \in Packages
    /\ gen = [pc |-> "created", i |-> 0, k |-> 0, release_list |-> <<>>]
    /\ yielded = <<>>
    /\ warned = <<>>
    /\ payload = <<>>
    /\ response_ok = TRUE
    /\ self = SPEC0("SPEC0StrictDate", DefaultWindow, TRUE)
    /\ releases = <<>>
    /\ now = NoDatetime
    /\ op = "none"
    /\ arg = 0
    /\ ret = NoCall
    /\ NoSpecifierCall

NextDefault == DefaultStart \/ DefaultResume

SpecDefault == InitDefault /\ [][NextDefault]_vars

(***************************************************************************)
(* What the claims speak of, stated on the inputs                          *)
(***************************************************************************)
\* the non-pre-release releases of a history
Finals(rs) == { rs[i] : i \in {j \in 1..Len(rs) : ~is_prerelease(rs[j].version)} }

LineOf(r) == <<r.version.epoch, r.version.release[1], r.version.release[2]>>

Lines(rs) == { LineOf(r) : r \in Finals(rs) }

\* k is the greatest (epoch, major, minor) of S
IsGreatest(k, S) ==
    /\ k \in S
    /\ \A j \in S : \/ j[1] < k[1]
                    \/ j[1] = k[1] /\ j[2] < k[2]
                    \/ j[1] = k[1] /\ j[2] = k[2] /\ j[3] <= k[3]

\* r is a non-pre-release release of line k of the history, none of them older
IsOldestOf(r, k, rs) ==
    /\ r \in Finals(rs)
    /\ LineOf(r) = k
    /\ \A q \in Finals(rs) : LineOf(q) = k => ~DtLess(q.release_date, r.release_date)

\* the oldest date of line k
OldestDateOf(k, rs) == (CHOOSE r \in Finals(rs) : IsOldestOf(r, k, rs)).release_date

Reorderings(rs) ==
    { [i \in 1..Len(rs) |-> rs[f[i]]] :
        f \in { g \in [1..Len(rs) -> 1..Len(rs)] :
                  \A a, b \in 1..Len(rs) : g[a] = g[b] => a = b } }

MonthIndex(d) == 12 * d.year + d.month

QuarterIndex(d) == 4 * d.year + ((d.month - 1) \div 3)

MentionsPackage(r) == \E i \in 1..Len(r.value.msg) : r.value.msg[i] = package

(***************************************************************************)
(* SPEC0.filter                                                            *)
(***************************************************************************)
\* the release the call of drop_date was applied to
Given == releases[arg]

\* the strict drop date of line k is defined and later than the clock read
Live(k) ==
    LET d == drop_date(self, package,
                       Release(Version(k[1], <<k[2], k[3]>>, NoPre), OldestDateOf(k, releases)))
    IN  IsReturn(d) /\ DtLess(now, d.value)

\* C1: whenever the history has a non-pre-release release, filter returns a
\* mapping that holds the greatest (epoch, major, minor) line, mapped to that
\* line's oldest release, whatever the policy, the window and the clock.
C1_GreatestLineReturned ==
    (op = "filter" /\ Lines(releases) # {}) =>
        /\ IsReturn(ret)
        /\ \E k \in DOMAIN ret.value :
              /\ IsGreatest(k, Lines(releases))
              /\ IsOldestOf(ret.value[k], k, releases)

\* What filter does give: a mapping, when it returns one, holds the greatest
\* line mapped to its oldest release.
FilterReturnHoldsGreatestLine ==
    (op = "filter" /\ IsReturn(ret)) =>
        \E k \in DOMAIN ret.value :
            /\ IsGreatest(k, Lines(releases))
            /\ IsOldestOf(ret.value[k], k, releases)

\* C2: a line other than the greatest is in the mapping filter returns exactly
\* when the clock read is strictly before the drop date of the line's oldest
\* release, and the mapping has no key that the history has not.
C2_OtherLinesKeptIffLive ==
    op = "filter" =>
        /\ IsReturn(ret) => DOMAIN ret.value \subseteq Lines(releases)
        /\ \A k \in Lines(releases) :
              ~IsGreatest(k, Lines(releases)) =>
                  ((IsReturn(ret) /\ k \in DOMAIN ret.value) <=> Live(k))

\* What filter does give: the equivalence of C2 on every mapping it returns.
FilterReturnKeepsExactlyLiveLines ==
    (op = "filter" /\ IsReturn(ret)) =>
        /\ DOMAIN ret.value \subseteq Lines(releases)
        /\ \A k \in Lines(releases) :
              ~IsGreatest(k, Lines(releases)) => (k \in DOMAIN ret.value <=> Live(k))

\* C3: on a history with no non-pre-release release filter returns nothing and
\* raises an error whose message names the package.
C3_NoDataErrorNamesPackage ==
    (op = "filter" /\ Lines(releases) = {}) =>
        /\ IsRaise(ret)
        /\ MentionsPackage(ret)

(***************************************************************************)
(* get_oldest_minor_release                                                *)
(***************************************************************************)
\* C5: the keys of the mapping are exactly the lines of the non-pre-release
\* inputs, each mapped to a non-pre-release input of that line of minimum
\* release_date; a pre-release is no value and makes no key.
C5_OldestPerLine ==
    op = "get_oldest_minor_release" =>
        /\ DOMAIN ret.value = Lines(releases)
        /\ \A k \in DOMAIN ret.value : IsOldestOf(ret.value[k], k, releases)

\* What get_oldest_minor_release does give: the mapping of C5 for the lines
\* whose oldest release is earlier than datetime.max, the placeholder of the
\* defaultdict (version None) for a line whose releases all have that date.
OldestPerLineBelowMax ==
    op = "get_oldest_minor_release" =>
        /\ DOMAIN ret.value = Lines(releases)
        /\ \A k \in DOMAIN ret.value :
              IF DtLess(OldestDateOf(k, releases), DatetimeMax)
              THEN IsOldestOf(ret.value[k], k, releases)
              ELSE ret.value[k] = DefaultRelease

\* C6 as stated: every reordering of the input gives the same mapping.
C6_OrderIndependent ==
    op = "get_oldest_minor_release" =>
        \A p \in Reorderings(releases) : get_oldest_minor_release(p) = ret.value

\* the non-pre-release releases of line k that have its oldest date
OldestOnes(k, rs) == { r \in Finals(rs) : IsOldestOf(r, k, rs) }

\* C6 as amended: every reordering of the input gives the same keys and the
\* same release_date for each key, and the same value for each key whose
\* oldest date only one release has.
C6_OrderIndependentUpToTies ==
    op = "get_oldest_minor_release" =>
        \A p \in Reorderings(releases) :
            LET m == get_oldest_minor_release(p)
            IN  /\ DOMAIN m = DOMAIN ret.value
                /\ \A k \in DOMAIN m :
                      /\ m[k].release_date = ret.value[k].release_date
                      /\ Cardinality(OldestOnes(k, releases)) = 1 => m[k] = ret.value[k]

\* a line whose newer release comes first in the input, then two releases of
\* different versions that share its oldest date: the first of the two is returned
C6_Witness ==
    /\ op = "get_oldest_minor_release"
    /\ \E i, j, k \in 1..Len(releases) :
          /\ i < j /\ j < k
          /\ ~is_prerelease(releases[i].version)
          /\ ~is_prerelease(releases[j].version)
          /\ ~is_prerelease(releases[k].version)
          /\ LineOf(releases[i]) = LineOf(releases[j])
          /\ LineOf(releases[k]) = LineOf(releases[j])
          /\ DtLess(releases[j].release_date, releases[i].release_date)
          /\ releases[k].release_date = releases[j].release_date
          /\ releases[k].version # releases[j].version
          /\ ret.value[LineOf(releases[j])] = releases[j]

(***************************************************************************)
(* drop_date                                                               *)
(***************************************************************************)
\* C7: for a release date of day at most 28 and a window of n >= 0 months, the
\* strict drop_date returns a datetime n months later by 12 * year + month,
\* with the day, the time of day and the timezone of the release date.
C7_StrictShiftsByWindow ==
    (op = "drop_date" /\ self.cls = "SPEC0StrictDate" /\ Given.release_date.day <= 28) =>
        /\ IsReturn(ret)
        /\ MonthIndex(ret.value) =
              MonthIndex(Given.release_date) + _get_n_months(self, package)
        /\ ret.value.day = Given.release_date.day
        /\ ret.value.second = Given.release_date.second
        /\ ret.value.microsecond = Given.release_date.microsecond
        /\ ret.value.tzinfo = Given.release_date.tzinfo

\* What the strict drop_date does give: the shift of C7 when it returns.
StrictReturnShiftsByWindow ==
    (op = "drop_date" /\ self.cls = "SPEC0StrictDate" /\ IsReturn(ret)) =>
        /\ MonthIndex(ret.value) =
              MonthIndex(Given.release_date) + _get_n_months(self, package)
        /\ ret.value.day = Given.release_date.day
        /\ ret.value.second = Given.release_date.second
        /\ ret.value.microsecond = Given.release_date.microsecond
        /\ ret.value.tzinfo = Given.release_date.tzinfo

\* the month-shifted release date of the call
NaiveDrop == shift_date_by_months(Given.release_date, _get_n_months(self, package))

\* C8: where the month-shifted date is defined, the quarter drop_date is UTC
\* midnight of the first day of the quarter after the one of that date: month
\* 1, 4, 7 or 10, day 1, strictly later than the month-shifted date.
C8_QuarterIsNextQuarterStart ==
    (op = "drop_date" /\ self.cls = "SPEC0Quarter" /\ IsReturn(NaiveDrop)) =>
        /\ IsReturn(ret)
        /\ ret.value.month \in {1, 4, 7, 10}
        /\ ret.value.day = 1
        /\ ret.value.second = 0
        /\ ret.value.microsecond = 0
        /\ ret.value.tzinfo = "UTC"
        /\ QuarterIndex(ret.value) = QuarterIndex(NaiveDrop.value) + 1
        /\ DtLess(NaiveDrop.value, ret.value)

\* a month-shifted date in the fourth quarter, rolled over to 1 January
C8_Witness ==
    /\ op = "drop_date"
    /\ self.cls = "SPEC0Quarter"
    /\ IsReturn(NaiveDrop)
    /\ NaiveDrop.value.month >= 10
    /\ IsReturn(ret)
    /\ ret.value.month = 1
    /\ ret.value.year = NaiveDrop.value.year + 1

(***************************************************************************)
(* make_specifier                                                          *)
(***************************************************************************)
\* the final versions the range is tried on: e!M.m.p, and 2.3.1, 1.9.0, 3.0.0
Candidates ==
    { Version(e, <<M, m, p>>, NoPre) :
        e \in 0..(MaxEpoch + 1), M \in 0..(MaxMajor + 2), m \in 0..(MaxMinor + 1), p \in 0..1 }
    \cup { Version(0, <<2, 3, 1>>, NoPre), Version(0, <<1, 9, 0>>, NoPre),
           Version(0, <<3, 0, 0>>, NoPre) }

Keys == DOMAIN supported

\* lo is the smallest (epoch, major, minor) of the keys
IsSmallestKey(lo) ==
    /\ lo \in Keys
    /\ \A k \in Keys : \/ lo[1] < k[1]
                       \/ lo[1] = k[1] /\ lo[2] < k[2]
                       \/ lo[1] = k[1] /\ lo[2] = k[2] /\ lo[3] <= k[3]

\* hi is a key of the largest (epoch, major)
IsLargestMajor(hi) ==
    /\ hi \in Keys
    /\ \A k \in Keys : k[1] < hi[1] \/ (k[1] = hi[1] /\ k[2] <= hi[2])

\* v >= e!M.m, for v = e!M.m.p
AtLeastLine(v, lo) ==
    \/ v.epoch > lo[1]
    \/ v.epoch = lo[1] /\ v.release[1] > lo[2]
    \/ v.epoch = lo[1] /\ v.release[1] = lo[2] /\ v.release[2] >= lo[3]

\* v < e!(M+1)
BelowNextMajor(v, hi) ==
    \/ v.epoch < hi[1]
    \/ v.epoch = hi[1] /\ v.release[1] <= hi[2]

\* C9: for a non-empty mapping make_specifier returns the range >= e!M.m of
\* the smallest key and, with the upper bound asked for, < e'!(M'+1) of the
\* largest (epoch, major): every supported line is in it, what is below the
\* smallest line or at or above the next major is not; without the upper bound
\* only the lower bound is imposed.
C9_SpecifierIsTheSupportedRange ==
    (op = "make_specifier" /\ Keys # {}) =>
        /\ IsReturn(ret)
        /\ Cardinality(ret.value) = (IF include_upper_bound THEN 2 ELSE 1)
        /\ \A lo, hi \in Keys :
              (IsSmallestKey(lo) /\ IsLargestMajor(hi)) =>
                  \A v \in Candidates :
                      SpecifierSetContains(ret.value, v) <=>
                          /\ AtLeastLine(v, lo)
                          /\ include_upper_bound => BelowNextMajor(v, hi)
        /\ \A k \in Keys, p \in 0..1 :
              SpecifierSetContains(ret.value, Version(k[1], <<k[2], k[3], p>>, NoPre))

\* the lines 2.0 to 2.5 with the upper bound: 2.3.1 is in, 1.9.0 and 3.0.0 are out
C9_Witness ==
    /\ op = "make_specifier"
    /\ Keys = ExampleKeys
    /\ include_upper_bound
    /\ IsReturn(ret)
    /\ SpecifierSetContains(ret.value, Version(0, <<2, 3, 1>>, NoPre))
    /\ ~SpecifierSetContains(ret.value, Version(0, <<1, 9, 0>>, NoPre))
    /\ ~SpecifierSetContains(ret.value, Version(0, <<3, 0, 0>>, NoPre))

(***************************************************************************)
(* DefaultReleaseSource.get_releases                                       *)
(***************************************************************************)
\* the i-th source gives its stream and ends it without failing
Succeeds(i) == sources[i].call = "generator" /\ ~sources[i].fails

StreamOf(i) == [k \in 1..sources[i].count |-> Item(i, k)]

\* the releases received that the i-th source yielded
ReceivedFrom(i) ==
    LET FromI(r) == r.version.release[1] = i
    IN  SelectSeq(yielded, FromI)

\* C4: the consumer that drains get_releases receives the stream of the first
\* source that succeeds, nothing of a later source, and then the end of the
\* stream; the error naming the package is raised exactly when every source
\* failed.
C4_FirstSuccessWins ==
    gen.pc = "closed" =>
        IF \E i \in 1..NSources : Succeeds(i)
        THEN LET first == CHOOSE i \in 1..NSources :
                              Succeeds(i) /\ \A j \in 1..(i - 1) : ~Succeeds(j)
             IN  /\ ret = Raise("StopIteration", <<>>)
                 /\ ReceivedFrom(first) = StreamOf(first)
                 /\ \A j \in (first + 1)..NSources : ReceivedFrom(j) = <<>>
        ELSE /\ IsRaise(ret)
             /\ ret.value.exc = "ValueError"
             /\ MentionsPackage(ret)

\* What get_releases does give: it never ends its stream, it always raises;
\* with the names bound, what was received is the streams of the sources
\* entered, one after the other, and the ValueError is raised exactly when no
\* source failed while it was consumed.
DefaultSourceConcatenatesAndRaises ==
    gen.pc = "closed" =>
        /\ IsRaise(ret)
        /\ ret.value.exc # "StopIteration"
        /\ resolves =>
              /\ \A i \in 1..NSources :
                    (\A j \in 1..(i - 1) : ~(sources[j].call = "generator" /\ sources[j].fails))
                        => ReceivedFrom(i) =
                              (IF sources[i].call = "generator" THEN StreamOf(i) ELSE <<>>)
              /\ ret.value.exc = "ValueError" <=>
                    \A j \in 1..NSources : ~(sources[j].call = "generator" /\ sources[j].fails)

(***************************************************************************)
(* PyPIReleaseSource.get_releases                                          *)
(***************************************************************************)
\* the items of the payload whose version string parses and that have a file
\* with an upload time
Qualifies(item) ==
    /\ IsReturn(ParseVersion(item.version_str))
    /\ \E f \in 1..Len(item.files) : HasUploadTime(item.files[f])

UploadTimes(item) ==
    { FromIsoFormat(ReplaceZ(item.files[f].upload_time_iso_8601)) :
        f \in { g \in 1..Len(item.files) : HasUploadTime(item.files[g]) } }

\* the release the item stands for: its version, its earliest upload time
ReleaseFor(item) ==
    Release(ParseVersion(item.version_str).value,
            CHOOSE t \in UploadTimes(item) : \A u \in UploadTimes(item) : ~DtLess(u, t))

\* C10: the releases come in non-increasing release_date order; once the
\* stream is drained it held exactly one release for each version string that
\* parses and has an upload time, dated by its earliest upload; an unparsable
\* version string gave a warning, and neither it nor a version without upload
\* time ended the stream with an error.
C10_PyPIStream ==
    (response_ok /\ gen.pc # "created") =>
        /\ \A a, b \in 1..Len(yielded) :
              a < b => ~DtLess(yielded[a].release_date, yielded[b].release_date)
        /\ IsRaise(ret) => ret.value.exc = "StopIteration"
        /\ \A n \in 1..Len(payload) :
              IsRaise(ParseVersion(payload[n].version_str)) =>
                  \E w \in 1..Len(warned) : warned[w].version_str = payload[n].version_str
        /\ gen.pc = "closed" =>
              /\ Len(yielded) = Cardinality({ n \in 1..Len(payload) : Qualifies(payload[n]) })
              /\ \A n \in 1..Len(payload) :
                    Qualifies(payload[n]) =>
                        \E a \in 1..Len(yielded) : yielded[a] = ReleaseFor(payload[n])

\* a drained stream of a payload that lists an older version before a newer
\* one, and has an unparsable version string and a version without upload time
C10_Witness ==
    /\ response_ok
    /\ gen.pc = "closed"
    /\ Len(yielded) = 2
    /\ \E a, b, c, d \in 1..Len(payload) :
          /\ a < b
          /\ Qualifies(payload[a]) /\ Qualifies(payload[b])
          /\ DtLess(ReleaseFor(payload[a]).release_date, ReleaseFor(payload[b]).release_date)
          /\ yielded = <<ReleaseFor(payload[b]), ReleaseFor(payload[a])>>
          /\ IsRaise(ParseVersion(payload[c].version_str))
          /\ IsReturn(ParseVersion(payload[d].version_str)) /\ ~Qualifies(payload[d])
    /\ Len(warned) = 1

=============================================================================
